---- MODULE Spec2Model ----
(***************************************************************************)
(* DeepseekAISummarizer (src/src/publishers/interfaces/publisher.interface *)
(* .ts): the client's remote-API handle, refresh()/validateConfig() over   *)
(* the configuration store, retryOperation(), summarize() and              *)
(* generateTitle().                                                        *)
(*                                                                         *)
(* The source's error messages that are written in Chinese are rendered in *)
(* ASCII here; the original text is given in the comment of each message.  *)
(***************************************************************************)
EXTENDS Naturals, Sequences, FiniteSets

\* ------------------------------------------------------------------------
\* Program constants
\* ------------------------------------------------------------------------
\* variant: one more retry than the source allows
MAX_RETRIES_Four == 3 + 1
MAX_RETRIES == 3
RETRY_DELAY == 1000

\* ------------------------------------------------------------------------
\* Bounds of the model
\* ------------------------------------------------------------------------
\* number of explicit refresh() calls a caller makes (the constructor's own
\* refresh() is not counted)
MaxRefresh == 1

\* ------------------------------------------------------------------------
\* JavaScript values: a tagged record of one shape
\* ------------------------------------------------------------------------
Undefined == [t |-> "undefined", s |-> "", a |-> << >>]
Null == [t |-> "null", s |-> "", a |-> << >>]
Str(x) == [t |-> "string", s |-> x, a |-> << >>]
Num(x) == [t |-> "number", s |-> x, a |-> << >>]
Arr(xs) == [t |-> "array", s |-> "", a |-> xs]

\* JavaScript truthiness, as used by `!x`
Truthy(v) ==
  CASE v.t = "undefined" -> FALSE
    [] v.t = "null" -> FALSE
    [] v.t = "string" -> v.s # ""
    [] v.t = "number" -> v.s # "0"
    [] OTHER -> TRUE

\* Array.isArray
IsArray(v) == v.t = "array"

\* a parsed JSON object, restricted to the properties the code reads (a
\* property the text does not have reads as undefined) plus score
Obj(ti, co, kw, sc) == [title |-> ti, content |-> co, keywords |-> kw, score |-> sc]
NoObj == Obj(Undefined, Undefined, Undefined, Undefined)

\* errors: the constructor's name and the message, a sequence of parts so
\* that a template literal `prefix${inner}` is a concatenation
Err(n, m) == [name |-> n, message |-> m]
NoErr == Err("", << >>)

\* ------------------------------------------------------------------------
\* Response texts the remote model can produce
\* ------------------------------------------------------------------------
TxtGood1 == "{\"title\":\"T1\",\"content\":\"C1\",\"keywords\":[\"k1\",\"k2\",\"k3\"],\"score\":88.5}"
TxtGood2 == "{\"title\":\"T2\",\"content\":\"C2\",\"keywords\":[],\"score\":0}"
TxtNoTitle == "{\"content\":\"C1\",\"keywords\":[\"k1\"]}"
TxtEmptyContent == "{\"title\":\"T1\",\"content\":\"\",\"keywords\":[\"k1\"]}"
TxtKwString == "{\"title\":\"T1\",\"content\":\"C1\",\"keywords\":\"k1,k2\"}"
TxtNoKw == "{\"title\":\"T1\",\"content\":\"C1\"}"
TxtNull == "null"
TxtPlain == "AI news"
TxtTrunc == "{\"title\":\"T1\","

Texts ==
  {TxtGood1, TxtGood2, TxtNoTitle, TxtEmptyContent, TxtKwString, TxtNoKw,
   TxtNull, TxtPlain, TxtTrunc}

\* JSON.parse on the texts above: the parsed value, or the SyntaxError
\* it throws
ParseOk(tag, o) == [tag |-> tag, obj |-> o, err |-> NoErr]
ParseThrows(m) == [tag |-> "throw", obj |-> NoObj, err |-> Err("SyntaxError", <<m>>)]

JSONParse(txt) ==
  CASE txt = TxtGood1 ->
         ParseOk("object", Obj(Str("T1"), Str("C1"), Arr(<<"k1", "k2", "k3">>), Num("88.5")))
    [] txt = TxtGood2 ->
         ParseOk("object", Obj(Str("T2"), Str("C2"), Arr(<< >>), Num("0")))
    [] txt = TxtNoTitle ->
         ParseOk("object", Obj(Undefined, Str("C1"), Arr(<<"k1">>), Undefined))
    [] txt = TxtEmptyContent ->
         ParseOk("object", Obj(Str("T1"), Str(""), Arr(<<"k1">>), Undefined))
    [] txt = TxtKwString ->
         ParseOk("object", Obj(Str("T1"), Str("C1"), Str("k1,k2"), Undefined))
    [] txt = TxtNoKw ->
         ParseOk("object", Obj(Str("T1"), Str("C1"), Undefined, Undefined))
    [] txt = TxtNull -> ParseOk("null", NoObj)
    [] txt = TxtTrunc -> ParseThrows("Unexpected end of JSON input")
    [] OTHER -> ParseThrows("Unexpected token A in JSON at position 0")

\* ------------------------------------------------------------------------
\* Remote responses: the request rejects, or resolves with a list of choices
\* ------------------------------------------------------------------------
Choice(hasMessage, content) == [hasMessage |-> hasMessage, content |-> content]
Resolved(cs) == [status |-> "resolved", choices |-> cs, err |-> NoErr]
Rejected(e) == [status |-> "rejected", choices |-> << >>, err |-> e]
NoResp == [status |-> "none", choices |-> << >>, err |-> NoErr]

RemoteErrors ==
  {Err("APIConnectionError", <<"Connection error.">>),
   Err("RateLimitError", <<"429 Too Many Requests">>)}

Responses ==
  {Rejected(e) : e \in RemoteErrors}
    \cup {Resolved(<< >>),
          Resolved(<<Choice(FALSE, Undefined)>>),
          Resolved(<<Choice(TRUE, Null)>>),
          Resolved(<<Choice(TRUE, Str(""))>>),
          Resolved(<<Choice(TRUE, Str(TxtPlain)), Choice(TRUE, Str(TxtGood1))>>),
          Resolved(<<Choice(TRUE, Str(TxtGood2)), Choice(TRUE, Null)>>)}
    \cup {Resolved(<<Choice(TRUE, Str(txt))>>) : txt \in Texts}

\* variant: the last choice instead of the first
FirstChoiceContent_Last(resp) ==
  IF Len(resp.choices) = 0 THEN Undefined
  ELSE IF ~resp.choices[Len(resp.choices)].hasMessage THEN Undefined
  ELSE resp.choices[Len(resp.choices)].content

\* response.choices[0]?.message?.content
FirstChoiceContent(resp) ==
  IF Len(resp.choices) = 0 THEN Undefined
  ELSE IF ~resp.choices[1].hasMessage THEN Undefined
  ELSE resp.choices[1].content

\* ------------------------------------------------------------------------
\* Error objects the code constructs
\* ------------------------------------------------------------------------
\* validateConfig: "DeepSeek API key is required"
ConfigurationError == Err("Error", <<"DeepSeek API key is required">>)
\* summarize: "Content is required for summarization"
InvalidInputError == Err("Error", <<"Content is required for summarization">>)
\* retryOperation, after the loop
MaxRetriesError == Err("Error", <<"Operation failed after max retries">>)
\* summarize: the message reads, in Chinese, "no valid summary result was obtained"
EmptySummaryError == Err("Error", <<"no valid summary result obtained">>)
\* generateTitle: the message reads, in Chinese, "no valid title was obtained"
EmptyTitleError == Err("Error", <<"no valid title obtained">>)
\* summarize: the message reads, in Chinese, "the summary result has an incorrect format"
BadShapeError == Err("Error", <<"summary result format is incorrect">>)
\* summarize: the prefix reads, in Chinese, "failed to parse the summary result: "
ParseFailedPrefix == "failed to parse summary result: "
\* variant: the parse error is rethrown as it is
WrapParseError_Rethrow(e) == e

\* `${prefix}${error instanceof Error ? error.message : ...}`: everything
\* thrown inside the try block is an Error
WrapParseError(e) == Err("Error", <<ParseFailedPrefix>> \o e.message)
\* this.client.chat with this.client undefined
UnsetHandleError == Err("TypeError", <<"Cannot read properties of undefined (reading 'chat')">>)
\* summary.title with summary null
NullSummaryError == Err("TypeError", <<"Cannot read properties of null (reading 'title')">>)
\* new OpenAI({apiKey: undefined}) without an OPENAI_API_KEY in the environment
MissingKeyError == Err("OpenAIError", <<"The OPENAI_API_KEY environment variable is missing or empty">>)

\* ------------------------------------------------------------------------
\* What one attempt does with the response of the remote model
\* ------------------------------------------------------------------------
NoResult == [t |-> "none", s |-> "", o |-> NoObj]
ObjResult(o) == [t |-> "object", s |-> "", o |-> o]
StrResult(x) == [t |-> "string", s |-> x, o |-> NoObj]

Return(v) == [ok |-> TRUE, val |-> v, err |-> NoErr]
Throw(e) == [ok |-> FALSE, val |-> NoResult, err |-> e]

\* variant: only the title is tested
SummaryShapeBad_TitleOnly(o) == ~Truthy(o.title)

\* variant: keywords is not tested
SummaryShapeBad_NoKeywords(o) == ~Truthy(o.title) \/ ~Truthy(o.content)

\* the condition of the if inside the try block of summarize
SummaryShapeBad(o) ==
  ~Truthy(o.title) \/ ~Truthy(o.content) \/ ~IsArray(o.keywords)

\* the try block of summarize: what it returns or throws
SummarizeTry(txt) ==
  LET p == JSONParse(txt) IN
    CASE p.tag = "throw" -> Throw(p.err)
      [] p.tag = "null" -> Throw(NullSummaryError)
      [] OTHER -> IF SummaryShapeBad(p.obj) THEN Throw(BadShapeError)
                  ELSE Return(ObjResult(p.obj))

\* try { ... } catch (error) { throw new Error(prefix + error.message) }
SummarizeParse(txt) ==
  LET r == SummarizeTry(txt) IN
    IF r.ok THEN r ELSE Throw(WrapParseError(r.err))

\* the operation of summarize from the point where the request settles
SummarizeOperation(resp) ==
  IF resp.status = "rejected" THEN Throw(resp.err)
  ELSE LET completion == FirstChoiceContent(resp) IN
         IF ~Truthy(completion) THEN Throw(EmptySummaryError)
         ELSE SummarizeParse(completion.s)

\* the operation of generateTitle from the point where the request settles
GenerateTitleOperation(resp) ==
  IF resp.status = "rejected" THEN Throw(resp.err)
  ELSE LET title == FirstChoiceContent(resp) IN
         IF ~Truthy(title) THEN Throw(EmptyTitleError)
         ELSE Return(StrResult(title.s))

Operation(kind, resp) ==
  IF kind = "summarize" THEN SummarizeOperation(resp)
  ELSE GenerateTitleOperation(resp)

\* variant: the same delay after every failure
RetryCatch_FlatDelay(attempt, e) ==
  IF attempt = MAX_RETRIES
  THEN [next |-> "throw", err |-> e, delay |-> 0]
  ELSE [next |-> "wait", err |-> NoErr, delay |-> RETRY_DELAY]

\* variant: the last failure is never rethrown, the loop runs out
RetryCatch_NoRethrow(attempt, e) ==
  [next |-> "wait", err |-> NoErr, delay |-> RETRY_DELAY * attempt]

\* variant: an error of the response's format is not retried
RetryCatch_FailFast(attempt, e) ==
  IF attempt = MAX_RETRIES \/ e.message[1] = ParseFailedPrefix
  THEN [next |-> "throw", err |-> e, delay |-> 0]
  ELSE [next |-> "wait", err |-> NoErr, delay |-> RETRY_DELAY * attempt]

\* variant: the delay counts the failures from zero
RetryCatch_ZeroBased(attempt, e) ==
  IF attempt = MAX_RETRIES
  THEN [next |-> "throw", err |-> e, delay |-> 0]
  ELSE [next |-> "wait", err |-> NoErr, delay |-> RETRY_DELAY * (attempt - 1)]

\* the catch block of retryOperation for the error of attempt number
\* `attempt`: rethrow, or sleep for delay milliseconds and loop
RetryCatch(attempt, e) ==
  IF attempt = MAX_RETRIES
  THEN [next |-> "throw", err |-> e, delay |-> 0]
  ELSE [next |-> "wait", err |-> NoErr, delay |-> RETRY_DELAY * attempt]

\* ------------------------------------------------------------------------
\* State
\* ------------------------------------------------------------------------
\* values the configuration store can hold under DEEPSEEK_API_KEY
ConfigValues == {Undefined, Str(""), Str("sk-1")}
\* the key of the process environment that new OpenAI falls back to
EnvKey == Str("sk-env")

\* the remote-API handle: the key it is bound to and the identity of the
\* object (the n-th object new OpenAI has made); id 0 is the unset field
Handle(key, id) == [apiKey |-> key, id |-> id]
Unset == Handle(Undefined, 0)

\* contents a caller passes
Contents == {Undefined, Str(""), Str("news")}

\* refresh() promises: the one the constructor starts and drops, and the
\* one a caller starts and awaits
RefreshIds == {"ctor", "caller"}
\* summarize/generateTitle invocations
Invs == {"a"}

VARIABLES
  config,    \* the value the configuration store holds for the API key
  client,    \* this.client
  nhandles,  \* how many OpenAI objects have been constructed
  nrefresh,  \* how many times a caller has called refresh()
  ref,       \* per refresh() promise: its position and what it has read
  inv        \* per invocation: its position, attempt counter and history

vars == <<config, client, nhandles, nrefresh, ref, inv>>

\* pc: idle | v_get (validateConfig awaits get) | v_ret (get has answered) |
\*     b_get (refresh awaits the second get) | b_ret | done | failed
\* key: the value the awaited get answered; held: a caller holds the promise;
\* before: the id of this.client when refresh() was called; emptyDuring: the store
\* held no key at the call and at every moment since
RefreshRec(pc, key, err, held, before, emptyDuring) ==
  [pc |-> pc, key |-> key, err |-> err, held |-> held, before |-> before,
   emptyDuring |-> emptyDuring]

RefreshPending(r) == ref[r].pc \in {"v_get", "v_ret", "b_get", "b_ret"}

\* pc: idle | request (the remote request is in flight) | wait (the backoff
\*     timer runs) | returned | failed
\* handle: this.client as the last attempt read it; first: the id of the
\* handle the first request of the invocation was issued through (0: none)
IdleInv ==
  [pc |-> "idle", kind |-> "", content |-> Undefined, attempt |-> 0,
   reqs |-> 0, fails |-> 0, waits |-> << >>, handle |-> Unset, first |-> 0,
   resp |-> NoResp, lastErr |-> NoErr, result |-> NoResult, err |-> NoErr]

Init ==
  /\ config \in ConfigValues
  /\ client = Unset
  /\ nhandles = 0
  /\ nrefresh = 0
  \* the constructor has called refresh(), which runs up to the await of
  \* validateConfig's get, and has dropped the promise
  /\ ref = [r \in RefreshIds |->
             IF r = "ctor"
             THEN RefreshRec("v_get", Undefined, NoErr, FALSE, 0, ~Truthy(config))
             ELSE RefreshRec("idle", Undefined, NoErr, FALSE, 0, FALSE)]
  /\ inv = [i \in Invs |-> IdleInv]

\* ------------------------------------------------------------------------
\* The configuration store and refresh()
\* ------------------------------------------------------------------------
\* somebody changes the stored key
SetConfig(v) ==
  /\ v # config
  /\ config' = v
  /\ ref' = [r \in RefreshIds |->
              IF RefreshPending(r)
              THEN [ref[r] EXCEPT !.emptyDuring = @ /\ ~Truthy(v)]
              ELSE ref[r]]
  /\ UNCHANGED <<client, nhandles, nrefresh, inv>>

\* variant: refresh() drops the old handle before it validates
CallRefresh_Clears ==
  /\ ref["caller"].pc \in {"idle", "done", "failed"}
  /\ nrefresh < MaxRefresh
  /\ nrefresh' = nrefresh + 1
  /\ client' = Unset
  /\ ref' = [ref EXCEPT !["caller"] =
               RefreshRec("v_get", Undefined, NoErr, TRUE, client.id, ~Truthy(config))]
  /\ UNCHANGED <<config, nhandles, inv>>

\* a caller calls refresh() and awaits it
CallRefresh ==
  /\ ref["caller"].pc \in {"idle", "done", "failed"}
  /\ nrefresh < MaxRefresh
  /\ nrefresh' = nrefresh + 1
  /\ ref' = [ref EXCEPT !["caller"] =
               RefreshRec("v_get", Undefined, NoErr, TRUE, client.id, ~Truthy(config))]
  /\ UNCHANGED <<config, client, nhandles, inv>>

\* ConfigManager.getInstance().get("DEEPSEEK_API_KEY") answers
ConfigGetReturns(r) ==
  /\ ref[r].pc \in {"v_get", "b_get"}
  /\ ref' = [ref EXCEPT ![r].key = config,
                        ![r].pc = IF ref[r].pc = "v_get" THEN "v_ret" ELSE "b_ret"]
  /\ UNCHANGED <<config, client, nhandles, nrefresh, inv>>

\* the if of validateConfig
ValidateConfigThrows(key) == ~Truthy(key)

\* variant: the handle is built from the key before the key is validated
ValidateResume_BuildsFirst(r) ==
  /\ ref[r].pc = "v_ret"
  /\ client' = Handle(ref[r].key, nhandles + 1)
  /\ nhandles' = nhandles + 1
  /\ IF ValidateConfigThrows(ref[r].key)
     THEN ref' = [ref EXCEPT ![r].pc = "failed", ![r].err = ConfigurationError,
                             ![r].key = Undefined]
     ELSE ref' = [ref EXCEPT ![r].pc = "done", ![r].key = Undefined]
  /\ UNCHANGED <<config, nrefresh, inv>>

\* validateConfig resumes with the key; refresh goes on to the second get
ValidateResume(r) ==
  /\ ref[r].pc = "v_ret"
  /\ IF ValidateConfigThrows(ref[r].key)
     THEN ref' = [ref EXCEPT ![r].pc = "failed", ![r].err = ConfigurationError,
                             ![r].key = Undefined]
     ELSE ref' = [ref EXCEPT ![r].pc = "b_get", ![r].key = Undefined]
  /\ UNCHANGED <<config, client, nhandles, nrefresh, inv>>

\* new OpenAI({apiKey: key, baseURL}): with an undefined key the library
\* takes the environment's key or throws when there is none
NewOpenAI(key) ==
  IF key.t = "undefined"
  THEN {[ok |-> TRUE, apiKey |-> EnvKey, err |-> NoErr],
        [ok |-> FALSE, apiKey |-> Undefined, err |-> MissingKeyError]}
  ELSE {[ok |-> TRUE, apiKey |-> key, err |-> NoErr]}

\* refresh resumes with the second key and assigns this.client
BuildResume(r) ==
  /\ ref[r].pc = "b_ret"
  /\ \E o \in NewOpenAI(ref[r].key) :
       IF o.ok
       THEN /\ client' = Handle(o.apiKey, nhandles + 1)
            /\ nhandles' = nhandles + 1
            /\ ref' = [ref EXCEPT ![r].pc = "done", ![r].key = Undefined]
       ELSE /\ ref' = [ref EXCEPT ![r].pc = "failed", ![r].err = o.err,
                                  ![r].key = Undefined]
            /\ UNCHANGED <<client, nhandles>>
  /\ UNCHANGED <<config, nrefresh, inv>>

\* ------------------------------------------------------------------------
\* retryOperation, summarize, generateTitle
\* ------------------------------------------------------------------------
\* attempt number k of the invocation rec threw e: the catch block
AfterThrow(rec, e) ==
  LET c == RetryCatch(rec.attempt, e) IN
    IF c.next = "throw"
    THEN [rec EXCEPT !.pc = "failed", !.err = c.err, !.lastErr = e, !.fails = @ + 1]
    ELSE [rec EXCEPT !.pc = "wait", !.waits = Append(@, c.delay), !.lastErr = e,
                     !.fails = @ + 1]

\* variant: the handle is read once, when the invocation starts, and kept
StartAttempt_Captured(rec, k) ==
  LET h == IF rec.handle # Unset THEN rec.handle ELSE client
      r == [rec EXCEPT !.attempt = k, !.handle = h, !.resp = NoResp]
  IN IF h = Unset THEN AfterThrow(r, UnsetHandleError)
     ELSE [r EXCEPT !.pc = "request", !.reqs = @ + 1,
                    !.first = IF @ = 0 THEN h.id ELSE @]

\* the loop body starts attempt k: operation() runs up to the await of
\* this.client.chat.completions.create(...), which throws at once when
\* this.client is undefined
StartAttempt(rec, k) ==
  LET r == [rec EXCEPT !.attempt = k, !.handle = client, !.resp = NoResp] IN
    IF client = Unset THEN AfterThrow(r, UnsetHandleError)
    ELSE [r EXCEPT !.pc = "request", !.reqs = @ + 1,
                   !.first = IF @ = 0 THEN client.id ELSE @]

\* variant: only an absent content is refused
ContentMissing_AbsentOnly(content) == content.t = "undefined"

\* the guard at the top of summarize
ContentMissing(content) == ~Truthy(content)

\* variant: a summary another invocation returned for the same content is
\* returned again, without a request
CallSummarize_Cached(i, content) ==
  /\ inv[i].pc = "idle"
  /\ LET rec == [inv[i] EXCEPT !.kind = "summarize", !.content = content]
         hits == {j \in DOMAIN inv : /\ inv[j].pc = "returned"
                                     /\ inv[j].kind = "summarize"
                                     /\ inv[j].content = content}
     IN inv' = [inv EXCEPT ![i] =
                  IF ContentMissing(content)
                  THEN [rec EXCEPT !.pc = "failed", !.err = InvalidInputError]
                  ELSE IF hits # {}
                  THEN [rec EXCEPT !.pc = "returned",
                                   !.result = inv[CHOOSE j \in hits : TRUE].result]
                  ELSE StartAttempt(rec, 1)]
  /\ UNCHANGED <<config, client, nhandles, nrefresh, ref>>

\* summarize: the guard, then retryOperation; nothing is looked up
CallSummarize(i, content) ==
  /\ inv[i].pc = "idle"
  /\ LET rec == [inv[i] EXCEPT !.kind = "summarize", !.content = content] IN
       inv' = [inv EXCEPT ![i] =
                 IF ContentMissing(content)
                 THEN [rec EXCEPT !.pc = "failed", !.err = InvalidInputError]
                 ELSE StartAttempt(rec, 1)]
  /\ UNCHANGED <<config, client, nhandles, nrefresh, ref>>

\* variant: generateTitle has the guard of summarize
CallGenerateTitle_Validates(i, content) ==
  /\ inv[i].pc = "idle"
  /\ LET rec == [inv[i] EXCEPT !.kind = "generateTitle", !.content = content] IN
       inv' = [inv EXCEPT ![i] =
                 IF ContentMissing(content)
                 THEN [rec EXCEPT !.pc = "failed", !.err = InvalidInputError]
                 ELSE StartAttempt(rec, 1)]
  /\ UNCHANGED <<config, client, nhandles, nrefresh, ref>>

\* generateTitle has no guard: the retry loop starts whatever the content
CallGenerateTitle(i, content) ==
  /\ inv[i].pc = "idle"
  /\ inv' = [inv EXCEPT ![i] =
               StartAttempt([inv[i] EXCEPT !.kind = "generateTitle", !.content = content], 1)]
  /\ UNCHANGED <<config, client, nhandles, nrefresh, ref>>

\* variant: the attempt counter is a field of the client, so a failure of
\* one invocation also counts for the others that are in their loop
RequestSettles_SharedCounter(i, resp) ==
  /\ inv[i].pc = "request"
  /\ LET rec == [inv[i] EXCEPT !.resp = resp]
         out == Operation(inv[i].kind, resp)
     IN inv' = [j \in DOMAIN inv |->
                  IF j = i
                  THEN IF out.ok
                       THEN [rec EXCEPT !.pc = "returned", !.result = out.val]
                       ELSE AfterThrow(rec, out.err)
                  ELSE IF ~out.ok /\ inv[j].pc \in {"request", "wait"}
                       THEN [inv[j] EXCEPT !.attempt = @ + 1]
                       ELSE inv[j]]
  /\ UNCHANGED <<config, client, nhandles, nrefresh, ref>>

\* the remote request settles with resp and the operation runs to its end
RequestSettles(i, resp) ==
  /\ inv[i].pc = "request"
  /\ LET rec == [inv[i] EXCEPT !.resp = resp]
         out == Operation(inv[i].kind, resp)
     IN inv' = [inv EXCEPT ![i] =
                  IF out.ok
                  THEN [rec EXCEPT !.pc = "returned", !.result = out.val]
                  ELSE AfterThrow(rec, out.err)]
  /\ UNCHANGED <<config, client, nhandles, nrefresh, ref>>

\* variant: the loop stops one attempt early
LoopContinues_Stops(attempt) == attempt < MAX_RETRIES

\* the condition of the for loop of retryOperation
LoopContinues(attempt) == attempt <= MAX_RETRIES

\* variant: the retry builds itself a new handle from the old one's key
TimerFires_Rebuilds(i) ==
  /\ inv[i].pc = "wait"
  /\ client # Unset
  /\ client' = Handle(client.apiKey, nhandles + 1)
  /\ nhandles' = nhandles + 1
  /\ inv' = [inv EXCEPT ![i] =
               IF LoopContinues(inv[i].attempt + 1)
               THEN [inv[i] EXCEPT !.attempt = @ + 1, !.handle = client',
                                   !.resp = NoResp, !.pc = "request", !.reqs = @ + 1]
               ELSE [inv[i] EXCEPT !.pc = "failed", !.err = MaxRetriesError]]
  /\ UNCHANGED <<config, nrefresh, ref>>

\* the setTimeout of the catch block fires: the loop increments attempt and
\* tests it; the throw after the loop is what a false test leads to
TimerFires(i) ==
  /\ inv[i].pc = "wait"
  /\ inv' = [inv EXCEPT ![i] =
               IF LoopContinues(inv[i].attempt + 1)
               THEN StartAttempt(inv[i], inv[i].attempt + 1)
               ELSE [inv[i] EXCEPT !.pc = "failed", !.err = MaxRetriesError]]
  /\ UNCHANGED <<config, client, nhandles, nrefresh, ref>>

Next ==
  \/ \E v \in ConfigValues : SetConfig(v)
  \/ CallRefresh
  \/ \E r \in RefreshIds : ConfigGetReturns(r)
  \/ \E r \in RefreshIds : ValidateResume(r)
  \/ \E r \in RefreshIds : BuildResume(r)
  \/ \E i \in Invs, c \in Contents : CallSummarize(i, c)
  \/ \E i \in Invs, c \in Contents : CallGenerateTitle(i, c)
  \/ \E i \in Invs, resp \in Responses : RequestSettles(i, resp)
  \/ \E i \in Invs : TimerFires(i)

Spec == Init /\ [][Next]_vars

\* ------------------------------------------------------------------------
\* Two invocations on one client, concurrent or one after the other; the
\* handle is the one the constructor's refresh() installs, if it does
\* ------------------------------------------------------------------------
Invs2 == {"a", "b"}

InitConc ==
  /\ config \in ConfigValues
  /\ client = Unset
  /\ nhandles = 0
  /\ nrefresh = 0
  /\ ref = [r \in RefreshIds |->
             IF r = "ctor"
             THEN RefreshRec("v_get", Undefined, NoErr, FALSE, 0, ~Truthy(config))
             ELSE RefreshRec("idle", Undefined, NoErr, FALSE, 0, FALSE)]
  /\ inv = [i \in Invs2 |-> IdleInv]

NextConc ==
  \/ ConfigGetReturns("ctor")
  \/ ValidateResume("ctor")
  \/ BuildResume("ctor")
  \/ \E i \in Invs2, c \in Contents : CallSummarize(i, c)
  \/ \E i \in Invs2, c \in Contents : CallGenerateTitle(i, c)
  \/ \E i \in Invs2, resp \in Responses : RequestSettles(i, resp)
  \/ \E i \in Invs2 : TimerFires(i)

SpecConc == InitConc /\ [][NextConc]_vars

\* ------------------------------------------------------------------------
\* One invocation on a client nobody refreshes, where every remote request
\* settles and every backoff timer fires: the promise of create() and the
\* setTimeout of the catch block are the only things an invocation awaits
\* ------------------------------------------------------------------------
NextLive ==
  \/ \E v \in ConfigValues : SetConfig(v)
  \/ \E r \in RefreshIds : ConfigGetReturns(r)
  \/ \E r \in RefreshIds : ValidateResume(r)
  \/ \E r \in RefreshIds : BuildResume(r)
  \/ \E i \in Invs, c \in Contents : CallSummarize(i, c)
  \/ \E i \in Invs, c \in Contents : CallGenerateTitle(i, c)
  \/ \E i \in Invs, resp \in Responses : RequestSettles(i, resp)
  \/ \E i \in Invs : TimerFires(i)

SpecLive ==
  /\ Init
  /\ [][NextLive]_vars
  /\ \A i \in Invs : WF_vars(\E resp \in Responses : RequestSettles(i, resp))
  /\ \A i \in Invs : WF_vars(TimerFires(i))

\* ------------------------------------------------------------------------
\* Properties
\* ------------------------------------------------------------------------
Started(i) == inv[i].pc # "idle"
\* the delays slept before attempt number k of an invocation was started
Backoff(k) == [j \in 1..(k - 1) |-> 1000 * j]

\* C1: summarize called with empty or absent content fails with the
\* invalid-input error and has made no attempt, no remote request and no
\* backoff wait, whether or not the handle is initialized.
C1_EmptyContentRejected ==
  \A i \in Invs :
    (Started(i) /\ inv[i].kind = "summarize" /\ ~Truthy(inv[i].content))
      => /\ inv[i].pc = "failed"
         /\ inv[i].err = InvalidInputError
         /\ inv[i].result = NoResult
         /\ inv[i].attempt = 0
         /\ inv[i].reqs = 0
         /\ inv[i].fails = 0
         /\ inv[i].waits = << >>

\* summarize("") has failed on a client whose handle is initialized
C1_Witness ==
  \E i \in Invs :
    /\ inv[i].kind = "summarize"
    /\ inv[i].content = Str("")
    /\ inv[i].pc = "failed"
    /\ client # Unset

\* C2, as stated: a refresh() called while the store holds no key (and that
\* keeps holding none) fails with the configuration error and the handle
\* after the failure is the handle before the call.
C2_HandleAsBeforeCall ==
  [][\A r \in RefreshIds :
       (ref[r].emptyDuring /\ ref[r].pc = "v_ret" /\ ref'[r].pc # "v_ret")
         => /\ ref'[r].pc = "failed"
            /\ ref'[r].err = ConfigurationError
            /\ client'.id = ref[r].before]_vars

\* C2, amended: a refresh() whose validateConfig reads no (or an empty) key
\* fails with the configuration error, and while a refresh() is pending on
\* a store that holds no key, the handle changes only in the step in which
\* another refresh() completes; the failing refresh() assigns nothing.
C2_FailingRefreshAssignsNothing ==
  [][\A r \in RefreshIds :
       /\ (ref[r].pc = "v_ret" /\ ~Truthy(ref[r].key) /\ ref'[r].pc # "v_ret")
            => /\ ref'[r].pc = "failed"
               /\ ref'[r].err = ConfigurationError
               /\ client' = client
       /\ (RefreshPending(r) /\ ref[r].emptyDuring /\ client' # client)
            => \E q \in RefreshIds \ {r} :
                 ref[q].pc = "b_ret" /\ ref'[q].pc = "done"]_vars

\* the caller's refresh() has failed on an empty store and the handle the
\* constructor's refresh() had installed before the call is still in place
C2_Witness ==
  /\ ref["caller"].pc = "failed"
  /\ ref["caller"].err = ConfigurationError
  /\ ref["caller"].emptyDuring
  /\ ref["caller"].before = 1
  /\ client.id = 1

\* C3: an invocation makes at most 3 attempts and at most 3 remote
\* requests, and attempt k+1 is under way only when attempts 1..k failed.
C3_AtMostThreeAttempts ==
  \A i \in Invs :
    /\ inv[i].attempt <= 3
    /\ inv[i].reqs <= inv[i].attempt
    /\ inv[i].reqs <= 3
    /\ inv[i].pc = "request" => inv[i].fails = inv[i].attempt - 1
    /\ inv[i].pc = "returned" => inv[i].fails = inv[i].attempt - 1
    /\ inv[i].pc = "wait" => inv[i].fails = inv[i].attempt
    /\ inv[i].fails <= inv[i].attempt

\* the 3rd request of an invocation is in flight after two failures
C3_Witness ==
  \E i \in Invs :
    inv[i].pc = "request" /\ inv[i].attempt = 3 /\ inv[i].reqs = 3 /\ inv[i].fails = 2

\* C4: a returned invocation hands the caller the result of its last
\* attempt, which is its first successful one (all earlier attempts failed),
\* the waits before it were 1000ms, 2000ms, ... in this order, and nothing
\* more happens to the invocation.
C4_FirstSuccessReturned ==
  /\ [](\A i \in Invs :
          inv[i].pc = "returned"
            => /\ Operation(inv[i].kind, inv[i].resp).ok
               /\ inv[i].result = Operation(inv[i].kind, inv[i].resp).val
               /\ inv[i].result # NoResult
               /\ inv[i].err = NoErr
               /\ inv[i].attempt \in 1..3
               /\ inv[i].fails = inv[i].attempt - 1
               /\ inv[i].waits = Backoff(inv[i].attempt))
  /\ [][\A i \in Invs : inv[i].pc = "returned" => inv'[i] = inv[i]]_vars

\* two failures, then a success on the 3rd attempt after waits of 1000ms
\* and 2000ms
C4_Witness ==
  \E i \in Invs :
    /\ inv[i].pc = "returned"
    /\ inv[i].attempt = 3
    /\ inv[i].fails = 2
    /\ inv[i].waits = <<1000, 2000>>

\* C5: an invocation that fails after entering the retry loop has made 3
\* attempts, and its error is the error its 3rd attempt threw: never the
\* "Operation failed after max retries" error, nor any other rewrapping.
C5_LastErrorPropagates ==
  \A i \in Invs :
    (inv[i].pc = "failed" /\ ~(inv[i].kind = "summarize" /\ ~Truthy(inv[i].content)))
      => /\ inv[i].attempt = 3
         /\ inv[i].fails = 3
         /\ inv[i].err = inv[i].lastErr
         /\ inv[i].err # MaxRetriesError
         /\ inv[i].err # NoErr
         /\ inv[i].resp.status = "rejected" => inv[i].err = inv[i].resp.err
         /\ inv[i].resp.status = "none" => inv[i].err = UnsetHandleError
         /\ inv[i].resp.status = "resolved"
              => inv[i].err = Operation(inv[i].kind, inv[i].resp).err

\* three attempts failed, the 3rd because the remote request was rejected
C5_Witness ==
  \E i \in Invs :
    /\ inv[i].pc = "failed"
    /\ inv[i].attempt = 3
    /\ inv[i].resp.status = "rejected"
    /\ inv[i].err.name = "RateLimitError"

\* the text of the first choice of the response of the last attempt, when
\* the response has one
HasText(resp) ==
  /\ resp.status = "resolved"
  /\ Len(resp.choices) > 0
  /\ resp.choices[1].hasMessage
  /\ resp.choices[1].content.t = "string"
  /\ resp.choices[1].content.s # ""
TextOf(resp) == resp.choices[1].content.s

\* C6: summarize on non-empty content ends either returned, with an object
\* whose title and content are truthy and whose keywords is an array, or
\* failed with an error and no result; no other object is ever returned.
C6_SummaryAllOrNothing ==
  \A i \in Invs :
    (inv[i].kind = "summarize" /\ Truthy(inv[i].content))
      => /\ inv[i].pc = "returned"
              => /\ inv[i].result.t = "object"
                 /\ Truthy(inv[i].result.o.title)
                 /\ Truthy(inv[i].result.o.content)
                 /\ IsArray(inv[i].result.o.keywords)
                 /\ inv[i].err = NoErr
         /\ inv[i].pc = "failed"
              => inv[i].err # NoErr /\ inv[i].result = NoResult
         /\ inv[i].pc \notin {"returned", "failed"}
              => inv[i].err = NoErr /\ inv[i].result = NoResult

\* summarize has returned a summary whose keywords array is empty
C6_Witness ==
  \E i \in Invs :
    /\ inv[i].kind = "summarize"
    /\ inv[i].pc = "returned"
    /\ inv[i].result.o.title = Str("T2")
    /\ inv[i].result.o.keywords = Arr(<< >>)

\* C7: a summarize attempt whose response text JSON.parse rejects throws an
\* Error whose message is the parse-failure prefix followed by the message
\* of the SyntaxError; when it is the last attempt the caller receives that
\* error and no summary.
C7_MalformedJsonFormatError ==
  \A i \in Invs :
    (/\ inv[i].kind = "summarize"
     /\ inv[i].pc \in {"wait", "failed", "returned"}
     /\ HasText(inv[i].resp)
     /\ JSONParse(TextOf(inv[i].resp)).tag = "throw")
      => /\ inv[i].pc # "returned"
         /\ inv[i].lastErr.name = "Error"
         /\ inv[i].lastErr.message =
              <<ParseFailedPrefix>> \o JSONParse(TextOf(inv[i].resp)).err.message
         /\ Len(inv[i].lastErr.message) = 2
         /\ inv[i].result = NoResult
         /\ inv[i].pc = "failed" => inv[i].err = inv[i].lastErr

\* summarize has failed on a 3rd attempt that received truncated JSON
C7_Witness ==
  \E i \in Invs :
    /\ inv[i].kind = "summarize"
    /\ inv[i].pc = "failed"
    /\ HasText(inv[i].resp)
    /\ TextOf(inv[i].resp) = TxtTrunc
    /\ inv[i].err.message = <<ParseFailedPrefix, "Unexpected end of JSON input">>

\* C8: generateTitle returns the text of the first choice of the first
\* attempt that has a non-empty one, as it is; an attempt whose response has
\* no choice, no message or no text throws the empty-title error, which the
\* caller receives when it is the last attempt.
C8_TitleVerbatim ==
  \A i \in Invs :
    inv[i].kind = "generateTitle"
      => /\ inv[i].pc = "returned"
              => /\ HasText(inv[i].resp)
                 /\ inv[i].result = StrResult(TextOf(inv[i].resp))
                 /\ inv[i].fails = inv[i].attempt - 1
         /\ (inv[i].pc \in {"wait", "failed", "returned"}
               /\ inv[i].resp.status = "resolved" /\ ~HasText(inv[i].resp))
              => /\ inv[i].pc # "returned"
                 /\ inv[i].lastErr = EmptyTitleError
                 /\ inv[i].pc = "failed" => inv[i].err = EmptyTitleError

\* generateTitle has returned the first of two choices, a text that is not
\* JSON, on its 2nd attempt
C8_Witness ==
  \E i \in Invs :
    /\ inv[i].kind = "generateTitle"
    /\ inv[i].pc = "returned"
    /\ inv[i].attempt = 2
    /\ Len(inv[i].resp.choices) = 2
    /\ inv[i].result = StrResult(TxtPlain)

\* C9: once a refresh() has completed successfully the handle is
\* initialized and stays so, and every attempt that starts from then on
\* reads an initialized handle and issues its request; before that, an
\* attempt can start on the unset handle (C9_Witness).
C9_ReadyAfterRefresh ==
  /\ [](nhandles > 0 => client # Unset)
  /\ [][\A i \in Invs :
          (nhandles > 0 /\ inv'[i].attempt # inv[i].attempt)
            => /\ inv'[i].handle # Unset
               /\ inv'[i].handle = client
               /\ inv'[i].pc = "request"
               /\ inv'[i].reqs = inv[i].reqs + 1]_vars

\* the 1st attempt of an invocation started before the constructor's
\* refresh() had completed, read the unset handle and threw without a
\* request; its 2nd attempt started after the completion and issued one
C9_Witness ==
  \E i \in Invs :
    /\ inv[i].attempt = 2
    /\ inv[i].fails = 1
    /\ inv[i].reqs = 1
    /\ inv[i].pc = "request"
    /\ inv[i].handle = client
    /\ client.id = 1
    /\ ref["ctor"].pc = "done"

\* C10, as stated: whenever an operation has failed, a caller has been
\* given its error: the promise that rejected is one a caller holds.
C10_NoErrorSwallowed ==
  /\ \A r \in RefreshIds : ref[r].pc = "failed" => ref[r].held
  /\ \A i \in Invs : inv[i].pc = "failed" => inv[i].err # NoErr


\* the invocation failed at the guard of summarize, before the retry loop
FailedAtGuard(i) ==
  inv[i].pc = "failed" /\ inv[i].kind = "summarize" /\ ~Truthy(inv[i].content)

\* C11: whatever error an attempt k < 3 throws (rejected request, unset
\* handle, empty response, unparseable JSON, wrong shape), the next step is
\* the wait, and the only step after the wait is the start of attempt k+1;
\* an invocation that fails inside the loop has made its 3rd attempt.
C11_BlindRetry ==
  /\ [](\A i \in Invs :
          /\ (inv[i].pc = "failed" /\ ~FailedAtGuard(i)) => inv[i].attempt = 3
          /\ inv[i].pc = "wait" => (inv[i].attempt < 3 /\ inv[i].lastErr # NoErr))
  /\ [][\A i \in Invs :
          /\ (inv'[i].fails = inv[i].fails + 1 /\ inv'[i].attempt < 3)
               => /\ inv'[i].pc = "wait"
                  /\ inv'[i].err = NoErr
                  /\ Len(inv'[i].waits) = Len(inv[i].waits) + 1
          /\ (inv[i].pc = "wait" /\ inv'[i] # inv[i])
               => inv'[i].attempt = inv[i].attempt + 1]_vars

\* the 2nd attempt of summarize received an object without keywords and
\* the invocation waits for its 3rd attempt
C11_Witness ==
  \E i \in Invs :
    /\ inv[i].kind = "summarize"
    /\ inv[i].pc = "wait"
    /\ inv[i].attempt = 2
    /\ inv[i].lastErr = Err("Error", <<ParseFailedPrefix, "summary result format is incorrect">>)

\* C12: the j-th wait of an invocation lasts 1000ms x j; there are as many
\* waits as failed attempts below the 3rd: none before the 1st attempt, none
\* after a success and none after the 3rd failure.
C12_BackoffSchedule ==
  \A i \in Invs :
    /\ inv[i].waits = [j \in 1..Len(inv[i].waits) |-> 1000 * j]
    /\ inv[i].pc = "wait" => Len(inv[i].waits) = inv[i].attempt
    /\ inv[i].pc = "request" => Len(inv[i].waits) = inv[i].attempt - 1
    /\ inv[i].pc = "returned" => Len(inv[i].waits) = inv[i].attempt - 1
    /\ (inv[i].pc = "failed" /\ ~FailedAtGuard(i))
         => (inv[i].attempt = 3 /\ inv[i].waits = <<1000, 2000>>)
    /\ (inv[i].pc = "idle" \/ FailedAtGuard(i)) => inv[i].waits = << >>

\* the 3rd attempt failed and the invocation ended at once, having waited
\* 1000ms and 2000ms
C12_Witness ==
  \E i \in Invs :
    /\ inv[i].pc = "failed"
    /\ inv[i].fails = 3
    /\ inv[i].waits = <<1000, 2000>>
    /\ inv[i].err # NoErr


\* C13, as stated: every request of an invocation is issued through the
\* handle its first request was issued through, also after a refresh().
C13_SameHandleThroughout ==
  \A i \in Invs : inv[i].pc = "request" => inv[i].handle.id = inv[i].first

\* C13, amended: an invocation captures no handle. Each attempt reads
\* this.client when it starts and issues its request through that handle;
\* while the request is in flight, and until the next attempt starts, a
\* refresh() that replaces this.client does not change the handle the
\* attempt uses.
C13_HandleReadPerAttempt ==
  [][\A i \in Invs :
       /\ inv'[i].attempt # inv[i].attempt => inv'[i].handle = client
       /\ inv'[i].attempt = inv[i].attempt => inv'[i].handle = inv[i].handle
       /\ (inv[i].pc = "request" /\ client' # client) => inv'[i] = inv[i]]_vars

\* the 1st request of an invocation went through handle 1, refresh()
\* replaced the handle during the wait, and the retry is in flight on
\* handle 2
C13_Witness ==
  \E i \in Invs :
    /\ inv[i].pc = "request"
    /\ inv[i].attempt = 2
    /\ inv[i].first = 1
    /\ inv[i].handle.id = 2
    /\ client.id = 2


\* C14: this.client changes only in the step in which a refresh() completes,
\* and then to a new object built from the key that refresh() read last
\* (with an undefined key the library takes the environment's); calls,
\* attempts, retries, validateConfig and the store leave it as it is.
C14_OnlyRefreshAssigns ==
  [][/\ client' # client
          => /\ \E r \in RefreshIds :
                  /\ ref[r].pc = "b_ret"
                  /\ ref'[r].pc = "done"
                  /\ client'.apiKey =
                       (IF ref[r].key.t = "undefined" THEN EnvKey ELSE ref[r].key)
             /\ client'.id = nhandles + 1
             /\ nhandles' = nhandles + 1
             /\ inv' = inv
     /\ \A r \in RefreshIds :
          (ref[r].pc = "b_ret" /\ ref'[r].pc = "done")
            => (client'.id > client.id /\ client' # Unset)
     /\ inv' # inv => client' = client]_vars

\* the caller's refresh() has replaced the constructor's handle by a second
\* object, and an invocation that retried has returned
C14_Witness ==
  /\ client = Handle(Str("sk-1"), 2)
  /\ ref["caller"].pc = "done"
  /\ ref["ctor"].pc = "done"
  /\ \E i \in Invs : inv[i].pc = "returned" /\ inv[i].attempt = 2 /\ inv[i].reqs = 2


\* the invocation has entered retryOperation
InLoop(i) ==
  inv[i].pc # "idle" /\ ~(inv[i].kind = "summarize" /\ ~Truthy(inv[i].content))

\* C15 (SpecConc): a step of one invocation changes nothing of the other;
\* whatever the other does, each invocation in its loop is at attempt 1..3
\* with as many failures and waits as its own attempts account for, ends
\* failed only after 3 failures of its own, and returns the result of the
\* response its own request received.
C15_InvocationsIndependent ==
  /\ [](\A i \in Invs2 :
          InLoop(i)
            => /\ inv[i].attempt \in 1..3
               /\ inv[i].reqs <= inv[i].attempt
               /\ inv[i].fails =
                    (IF inv[i].pc \in {"wait", "failed"} THEN inv[i].attempt
                     ELSE inv[i].attempt - 1)
               /\ inv[i].waits = [j \in 1..Len(inv[i].waits) |-> 1000 * j]
               /\ Len(inv[i].waits) =
                    (IF inv[i].pc = "wait" THEN inv[i].attempt ELSE inv[i].attempt - 1)
               /\ inv[i].pc = "failed" => (inv[i].attempt = 3 /\ inv[i].err = inv[i].lastErr)
               /\ inv[i].pc = "returned"
                    => inv[i].result = Operation(inv[i].kind, inv[i].resp).val)
  /\ [][\A i \in Invs2 : \A j \in Invs2 \ {i} :
          inv'[i] # inv[i] => inv'[j] = inv[j]]_vars

\* invocation a has failed three times and waits no more, while invocation
\* b, with the same operation and content, returned from its 1st attempt
C15_Witness ==
  /\ inv["a"].pc = "failed"
  /\ inv["a"].fails = 3
  /\ inv["a"].reqs = 3
  /\ inv["b"].pc = "returned"
  /\ inv["b"].attempt = 1
  /\ inv["b"].waits = << >>
  /\ inv["b"].kind = inv["a"].kind
  /\ inv["b"].content = inv["a"].content


\* C16 (SpecLive): when every request settles and every timer fires, an
\* invocation that is in its loop eventually ends; it ends returned with a
\* result, failed at the guard before any attempt, or failed with the error
\* of its 3rd attempt; and nothing but the settling of its request moves an
\* invocation whose request is in flight (there is no timeout).
C16_Terminates ==
  /\ \A i \in Invs :
       (inv[i].pc \in {"request", "wait"}) ~> (inv[i].pc \in {"returned", "failed"})
  /\ [](\A i \in Invs :
          inv[i].pc \in {"returned", "failed"}
            => \/ /\ inv[i].pc = "returned"
                  /\ inv[i].result # NoResult
                  /\ inv[i].err = NoErr
               \/ /\ inv[i].pc = "failed"
                  /\ inv[i].err = InvalidInputError
                  /\ inv[i].attempt = 0
                  /\ inv[i].reqs = 0
               \/ /\ inv[i].pc = "failed"
                  /\ inv[i].attempt = 3
                  /\ inv[i].fails = 3
                  /\ inv[i].err = inv[i].lastErr
                  /\ inv[i].err # NoErr)
  /\ [][\A i \in Invs :
          (inv[i].pc = "request" /\ inv'[i] # inv[i])
            => inv'[i].resp.status \in {"resolved", "rejected"}]_vars

\* three requests were issued and each was rejected: the invocation ended
\* with the connection error of the 3rd
C16_Witness ==
  \E i \in Invs :
    /\ inv[i].pc = "failed"
    /\ inv[i].reqs = 3
    /\ inv[i].fails = 3
    /\ inv[i].err = Err("APIConnectionError", <<"Connection error.">>)


\* the last response of the invocation parsed to an object whose title or
\* content is missing or falsy, or whose keywords is not an array
ParsedShapeWrong(i) ==
  /\ inv[i].kind = "summarize"
  /\ HasText(inv[i].resp)
  /\ JSONParse(TextOf(inv[i].resp)).tag = "object"
  /\ LET o == JSONParse(TextOf(inv[i].resp)).obj IN
       \/ o.title.t = "undefined" \/ o.title = Str("")
       \/ o.content.t = "undefined" \/ o.content = Str("")
       \/ o.keywords.t # "array"

\* C17: a summarize attempt whose response parses to an object with a
\* missing or falsy title or content, or with keywords that is not an
\* array, throws the response-format error and returns nothing; below the
\* 3rd attempt the invocation waits and retries, at the 3rd the caller
\* receives that error.
C17_WrongShapeFailsAttempt ==
  /\ [](\A i \in Invs :
          (ParsedShapeWrong(i) /\ inv[i].pc \in {"wait", "failed", "returned"})
            => /\ inv[i].pc # "returned"
               /\ inv[i].result = NoResult
               /\ inv[i].lastErr =
                    Err("Error", <<ParseFailedPrefix, "summary result format is incorrect">>)
               /\ inv[i].pc = "wait" => (inv[i].attempt < 3 /\ inv[i].err = NoErr)
               /\ inv[i].pc = "failed"
                    => (inv[i].attempt = 3 /\ inv[i].err = inv[i].lastErr))
  /\ [][\A i \in Invs :
          (inv[i].pc = "request" /\ inv'[i] # inv[i] /\ ParsedShapeWrong(i)')
            => inv'[i].pc = (IF inv[i].attempt < 3 THEN "wait" ELSE "failed")]_vars

\* the 3rd attempt of summarize received keywords as a string; the
\* invocation failed with the response-format error
C17_Witness ==
  \E i \in Invs :
    /\ inv[i].pc = "failed"
    /\ inv[i].attempt = 3
    /\ ParsedShapeWrong(i)
    /\ TextOf(inv[i].resp) = TxtKwString
    /\ inv[i].err = Err("Error", <<ParseFailedPrefix, "summary result format is incorrect">>)


\* C18, as stated: the step that completes a refresh() successfully installs
\* a handle bound to a non-empty key of the configuration store, the key
\* validateConfig accepted (the store has one key that validateConfig
\* accepts), whatever happens to the store between the two reads.
C18_HandleBoundToValidatedKey ==
  [][\A r \in RefreshIds :
       (ref[r].pc = "b_ret" /\ ref'[r].pc = "done")
         => /\ client'.apiKey.t = "string"
            /\ client'.apiKey.s # ""
            /\ client'.apiKey \in {v \in ConfigValues : ~ValidateConfigThrows(v)}]_vars


\* generateTitle was called with an empty or absent content
TitleOfNothing(i) ==
  /\ inv[i].kind = "generateTitle"
  /\ inv[i].pc # "idle"
  /\ (inv[i].content.t = "undefined" \/ inv[i].content = Str(""))

\* C19, as stated: generateTitle called with an empty or absent content
\* does not fail with the invalid-input error, is in the retry loop and has
\* issued a remote request, 3 at most.
C19_EmptyContentIssuesRequest ==
  \A i \in Invs :
    TitleOfNothing(i)
      => /\ inv[i].err # InvalidInputError
         /\ inv[i].attempt >= 1
         /\ inv[i].reqs >= 1
         /\ inv[i].reqs <= 3

\* C19, amended: generateTitle called with an empty or absent content never
\* fails with the invalid-input error; the call starts the 1st attempt of
\* the retry loop, which issues a remote request when this.client is
\* initialized and throws the TypeError of the unset handle, without a
\* request, when it is not; there are 3 attempts and 3 requests at most,
\* and the invocation fails only at the 3rd attempt.
C19_NoGuardInGenerateTitle ==
  /\ [](\A i \in Invs :
          TitleOfNothing(i)
            => /\ inv[i].err # InvalidInputError
               /\ inv[i].attempt \in 1..3
               /\ inv[i].reqs <= inv[i].attempt
               /\ inv[i].pc = "failed" => inv[i].attempt = 3)
  /\ [][\A i \in Invs :
          (inv[i].pc = "idle" /\ TitleOfNothing(i)')
            => /\ inv'[i].attempt = 1
               /\ client # Unset => (inv'[i].pc = "request" /\ inv'[i].reqs = 1)
               /\ client = Unset
                    => /\ inv'[i].pc = "wait"
                       /\ inv'[i].reqs = 0
                       /\ inv'[i].lastErr = UnsetHandleError]_vars

\* generateTitle("") issued three requests, each answered without a title,
\* and failed with the empty-title error
C19_Witness ==
  \E i \in Invs :
    /\ inv[i].kind = "generateTitle"
    /\ inv[i].content = Str("")
    /\ inv[i].pc = "failed"
    /\ inv[i].reqs = 3
    /\ inv[i].err = EmptyTitleError


\* C20, as stated (SpecConc): every invocation that passed the guard and
\* has ended issued at least one remote request of its own, and what it
\* returned is what its own last response gives.
C20_EveryCallIssuesRequest ==
  \A i \in Invs2 :
    (InLoop(i) /\ inv[i].pc \in {"returned", "failed"})
      => /\ inv[i].reqs >= 1
         /\ inv[i].pc = "returned"
              => inv[i].result = Operation(inv[i].kind, inv[i].resp).val

\* C20, amended (SpecConc): nothing is cached. An invocation returns only
\* from a request of its own that was in flight, and returns what that
\* response gives; every attempt that starts while this.client is
\* initialized issues a request of its own, also when another invocation
\* of the same operation with the same content has already returned; an
\* attempt that starts on the unset handle issues none.
C20_NoCaching ==
  /\ [](\A i \in Invs2 :
          inv[i].pc = "returned"
            => /\ inv[i].reqs >= 1
               /\ inv[i].resp.status = "resolved"
               /\ inv[i].result = Operation(inv[i].kind, inv[i].resp).val)
  /\ [][\A i \in Invs2 :
          /\ (inv'[i].pc = "returned" /\ inv[i].pc # "returned")
               => inv[i].pc = "request"
          /\ inv'[i].attempt # inv[i].attempt
               => IF client # Unset
                  THEN inv'[i].pc = "request" /\ inv'[i].reqs = inv[i].reqs + 1
                  ELSE inv'[i].pc # "request" /\ inv'[i].reqs = inv[i].reqs]_vars

\* two invocations of summarize with the same content each issued a
\* request and returned the summary of its own response
C20_Witness ==
  /\ inv["a"].kind = "summarize" /\ inv["b"].kind = "summarize"
  /\ inv["a"].content = inv["b"].content
  /\ inv["a"].pc = "returned" /\ inv["b"].pc = "returned"
  /\ inv["a"].reqs = 1 /\ inv["b"].reqs = 1
  /\ inv["a"].result.o.title = Str("T1")
  /\ inv["b"].result.o.title = Str("T2")

====
